---- MODULE Spec2Model ----
(***************************************************************************)
(* A model of MetadataSourceManager (src/src/metadata_manager.py): the     *)
(* registry of metadata source plugins, its reload and shutdown life       *)
(* cycle, and its fan-out operations.  Every action is the code that runs  *)
(* between two suspension points (await) of one coroutine, so the          *)
(* interleavings of the model are those of the asyncio event loop.         *)
(***************************************************************************)
EXTENDS Naturals, Integers, Sequences, FiniteSets, TLC

(***************************************************************************)
(* Bounds of the model.                                                    *)
(***************************************************************************)
\* number of load_and_sync_sources() calls made in a run
MaxReloads == 2
\* displayOrder values of the rows the store holds at start: 0..MaxOrder
MaxOrder == 1
\* number of modules of the plugin directory something is wrong with
MaxFaulty == 1

(***************************************************************************)
(* The plugin directory: what pkgutil.iter_modules yields, in its order.   *)
(* private: the name starts with "_" or is "base" (line 78).  Each module  *)
(* defines one plugin class; two modules declare the provider "tmdb".      *)
(* The module tvdb is src/src/metadata_sources/tvdb.py.                    *)
(***************************************************************************)
Modules ==
  << [name |-> "base",    private |-> TRUE,  provider_name |-> "base"],
     [name |-> "bangumi", private |-> FALSE, provider_name |-> "bangumi"],
     [name |-> "tmdb",    private |-> FALSE, provider_name |-> "tmdb"],
     [name |-> "tmdb_v4", private |-> FALSE, provider_name |-> "tmdb"],
     [name |-> "tvdb",    private |-> FALSE, provider_name |-> "tvdb"] >>

\* provider names, in the order the plugin directory first declares them;
\* "douban" is a provider whose module is no longer in the directory
NameOrder == <<"bangumi", "tmdb", "douban", "tvdb">>
Names == {NameOrder[i] : i \in 1..Len(NameOrder)}

\* the modules load_and_sync_sources imports
Importable == {i \in 1..Len(Modules) : ~Modules[i].private}

\* the module of tvdb.py
Tvdb == CHOOSE i \in Importable : Modules[i].name = "tvdb"

\* the state of a module: its file is not in the directory ("absent"), its
\* import or member scan raises ("import"), the constructor of its class
\* raises ("ctor"), or nothing is wrong with it ("none")
Faulty(f) == {i \in Importable : f[i] \in {"import", "ctor"}}

\* the directories with at most MaxFaulty faulty modules, without tvdb.py
Faults ==
  {f \in [Importable -> {"none", "import", "ctor", "absent"}] :
     /\ \A i \in Importable : f[i] = "absent" <=> i = Tvdb
     /\ Cardinality(Faulty(f)) <= MaxFaulty}

\* the same directories with tvdb.py, which imports and constructs
FaultsWithTvdb == {[f EXCEPT ![Tvdb] = "none"] : f \in Faults}

(***************************************************************************)
(* Python dicts: functions, iterated in insertion order.  Every dict of    *)
(* the manager is filled in discovery order, which is NameOrder; the       *)
(* settings list, whose order the store decides, is taken in that order    *)
(* too.                                                                    *)
(***************************************************************************)
EmptyDict == [x \in {} |-> 0]

Put(d, k, v) == [x \in DOMAIN d \cup {k} |-> IF x = k THEN v ELSE d[x]]

Keys(d) == SelectSeq(NameOrder, LAMBDA n : n \in DOMAIN d)

Values(d) == [i \in 1..Len(Keys(d)) |-> d[Keys(d)[i]]]

(***************************************************************************)
(* State.                                                                  *)
(***************************************************************************)
VARIABLES
  sources,          \* self.sources: provider_name -> instance (an index of inst)
  source_classes,   \* self._source_classes: provider_name -> module index
  source_settings,  \* self.source_settings: provider_name -> settings row
  db,               \* the persisted settings store: provider_name -> row
  inst,             \* every instance constructed so far: name, module, close() calls
  pc,               \* where each close_all / load_and_sync_sources call stands
  batch,            \* close_all: the instances its tasks were built from (line 228)
  res,              \* close_all: the outcome of each task of the batch
  discovered,       \* load_and_sync_sources: its local discovered_providers
  settings_list,    \* load_and_sync_sources: its local settings_list
  fault,            \* the plugin directory: what is wrong with each module
  reloads,          \* the number of load_and_sync_sources() calls made so far
  apc,              \* where the search_aliases_from_enabled_sources call stands
  enabled,          \* its local enabled_sources_settings (the provider names)
  tasks,            \* its local tasks: the instances search_aliases was called on
  results,          \* its local results: the outcome of each task
  all_aliases,      \* the set it returned
  spc,              \* where the get_sources_with_status call stands
  loaded_providers, \* its local loaded_providers (line 142)
  connectivity_statuses,  \* its local connectivity_statuses, task by task
  full_status_list, \* the list it returned
  last_call,        \* the last call of a dispatch operation and how it ended
  hist              \* history read by no action: what a call saw when it started

reloadLocals == <<discovered, settings_list>>
aliasVars == <<apc, enabled, tasks, results, all_aliases>>
\* what no step of load_and_sync_sources or close_all changes
statusVars == <<spc, loaded_providers, connectivity_statuses, full_status_list>>
env == <<fault, aliasVars, statusVars, last_call>>
\* what no step of a fan-out operation changes
registry == <<sources, source_classes, source_settings, db, inst, pc, batch,
              res, discovered, settings_list, fault, reloads, last_call>>
vars == <<sources, source_classes, source_settings, db, inst, pc, batch, res,
          discovered, settings_list, fault, reloads, aliasVars, statusVars,
          last_call, hist>>

\* caller 0 is the shutdown close_all(); callers 1 and 2 are two coroutines
\* that call load_and_sync_sources(), each time after time, so that two
\* reloads may overlap
Reloaders == {1, 2}
Callers == {0} \cup Reloaders

\* a call that is suspended at an await
Active == {"closing", "sync", "read", "exit"}
\* a call that has returned or raised
Ended == {"done", "close_raised", "ctor_raised"}

(***************************************************************************)
(* The persisted settings store (crud, not part of the sources at hand).   *)
(***************************************************************************)
DefaultOrder == 99

RowValues == [isAuxSearchEnabled : BOOLEAN, displayOrder : 0..MaxOrder,
              useProxy : BOOLEAN]

\* the row the store gives a new provider; the spec leaves open whether the
\* new provider is enabled for the alias search
NewRows == [isAuxSearchEnabled : BOOLEAN, displayOrder : {DefaultOrder},
            useProxy : {FALSE}]

\* crud.sync_metadata_sources_to_db: inserts the missing rows, leaves the others
RECURSIVE SyncToDb(_, _, _)
SyncToDb(store, names, row) ==
  IF names = <<>> THEN store
  ELSE SyncToDb(IF Head(names) \in DOMAIN store THEN store
                ELSE Put(store, Head(names), row),
                Tail(names), row)

\* crud.get_all_metadata_source_settings: every row, with its providerName
GetAllSettings(store) ==
  [i \in 1..Len(Keys(store)) |->
     [providerName |-> Keys(store)[i], row |-> store[Keys(store)[i]]]]

\* crud.get_enabled_aux_metadata_sources: the rows with isAuxSearchEnabled
GetEnabledAux(store) ==
  SelectSeq(GetAllSettings(store), LAMBDA s : s.row.isAuxSearchEnabled)

(***************************************************************************)
(* load_and_sync_sources, lines 74-99: the scan of the plugin directory.   *)
(* A module whose import or member scan raises is caught at line 98 and    *)
(* contributes nothing.                                                    *)
(***************************************************************************)
\* mutant: a provider name that is already registered keeps its class
RECURSIVE ScanModulesFirstWins(_, _, _, _)
ScanModulesFirstWins(i, faults, classes, found) ==
  IF i > Len(Modules) THEN [classes |-> classes, found |-> found]
  ELSE IF Modules[i].private \/ faults[i] \in {"import", "absent"}
       THEN ScanModulesFirstWins(i + 1, faults, classes, found)
       ELSE ScanModulesFirstWins(i + 1, faults,
                        IF Modules[i].provider_name \in DOMAIN classes
                        THEN classes
                        ELSE Put(classes, Modules[i].provider_name, i),
                        Append(found, Modules[i].provider_name))

RECURSIVE ScanModules(_, _, _, _)
ScanModules(i, faults, classes, found) ==
  IF i > Len(Modules) THEN [classes |-> classes, found |-> found]
  ELSE IF Modules[i].private \/ faults[i] \in {"import", "absent"}
       THEN ScanModules(i + 1, faults, classes, found)
       ELSE ScanModules(i + 1, faults,
                        Put(classes, Modules[i].provider_name, i),
                        Append(found, Modules[i].provider_name))

(***************************************************************************)
(* load_and_sync_sources, lines 107-109: one instance per discovered       *)
(* class, in dict order; a constructor that raises ends the loop and the   *)
(* call.                                                                   *)
(***************************************************************************)
NewInstance(name, module) == [name |-> name, module |-> module, closeCalls |-> 0]

RECURSIVE Instantiate(_, _, _, _, _)
Instantiate(names, classes, faults, srcs, insts) ==
  IF names = <<>> THEN [sources |-> srcs, inst |-> insts, raised |-> FALSE]
  ELSE IF faults[classes[Head(names)]] = "ctor"
       THEN [sources |-> srcs, inst |-> insts, raised |-> TRUE]
       ELSE Instantiate(Tail(names), classes, faults,
                        Put(srcs, Head(names), Len(insts) + 1),
                        Append(insts, NewInstance(Head(names), classes[Head(names)])))

(***************************************************************************)
(* close_all, lines 228-235.                                               *)
(***************************************************************************)
\* mutant: close_all closes nothing
CloseNothing(srcs) == <<>>

\* line 228: one close() coroutine per value of self.sources
CloseTasks(srcs) == Values(srcs)

Pending(b) == [i \in 1..Len(b) |-> "pending"]

\* mutant: the gather is over as soon as one task has raised
SettledOrFailed(r) ==
  \/ \A i \in 1..Len(r) : r[i] # "pending"
  \/ \E i \in 1..Len(r) : r[i] = "exc"

Settled(r) == \A i \in 1..Len(r) : r[i] # "pending"

\* mutant: gather without return_exceptions, the first failure is raised
CloseAllRaisesUnisolated(r, srcs) ==
  \E i \in 1..Len(r) : r[i] = "exc"

\* lines 230-234: for a result that is an exception the provider name is
\* looked up by position in the keys of self.sources as they are now; the
\* lookup raises IndexError when the dict has shrunk meanwhile
CloseAllRaises(r, srcs) ==
  \E i \in 1..Len(r) : r[i] = "exc" /\ i > Len(Keys(srcs))

(***************************************************************************)
(* History kept for the properties.  For a reload: the two dicts as they   *)
(* were when it was called.  For the shutdown close_all: the close() count *)
(* of each instance of its batch when it was called, and whether it ran    *)
(* with no reload suspended when it was called and no step of a reload     *)
(* since.  For the alias search (kept with caller 0): the store as line    *)
(* 114 read it and self.sources as lines 116-122 read it.  For the status  *)
(* listing (kept with caller 0): self.source_settings as line 150 read it. *)
(***************************************************************************)
NoHist == [preSources |-> EmptyDict, preSettings |-> EmptyDict,
           callsAtStart |-> <<>>, alone |-> TRUE,
           dbAtRead |-> EmptyDict, sourcesAtBuild |-> EmptyDict,
           settingsAtList |-> EmptyDict]

\* the record of a call that starts now
StartHist(c) ==
  IF c = 0
  THEN [hist[0] EXCEPT !.callsAtStart = [i \in 1..Len(CloseTasks(sources)) |->
                                          inst[CloseTasks(sources)[i]].closeCalls],
                      !.alone = \A o \in Reloaders : pc[o] \notin Active]
  ELSE [NoHist EXCEPT !.preSources = sources, !.preSettings = source_settings]

\* a step of a reload runs after close_all was called
Interleaved(h) ==
  IF pc[0] # "idle" THEN [h EXCEPT ![0].alone = FALSE] ELSE h

(***************************************************************************)
(* Init: the manager as __init__ leaves it (lines 37-41), no call made,    *)
(* any plugin directory and any content of the persisted store.            *)
(***************************************************************************)
StoresOf(rows) == UNION {[S -> rows] : S \in SUBSET (Names \ {"tvdb"})}

InitManager ==
  /\ sources = EmptyDict
  /\ source_classes = EmptyDict
  /\ source_settings = EmptyDict
  /\ inst = <<>>
  /\ pc = [c \in Callers |-> "idle"]
  /\ batch = [c \in Callers |-> <<>>]
  /\ res = [c \in Callers |-> <<>>]
  /\ discovered = [c \in Reloaders |-> <<>>]
  /\ settings_list = [c \in Reloaders |-> <<>>]
  /\ hist = [c \in Callers |-> NoHist]
  /\ reloads = 0
  /\ apc = "idle"
  /\ enabled = <<>>
  /\ tasks = <<>>
  /\ results = <<>>
  /\ all_aliases = {}
  /\ spc = "idle"
  /\ loaded_providers = <<>>
  /\ connectivity_statuses = <<>>
  /\ full_status_list = <<>>
  /\ last_call = [op |-> "none", provider |-> "", loaded |-> FALSE,
                  outcome |-> "", reached |-> "", module |-> 0,
                  mapped |-> FALSE, closed |-> FALSE]

Init ==
  /\ InitManager
  /\ fault \in Faults
  /\ db \in StoresOf({[isAuxSearchEnabled |-> TRUE, displayOrder |-> 0,
                       useProxy |-> FALSE]})

(***************************************************************************)
(* load_and_sync_sources, lines 70-99, up to the await of line 102: the    *)
(* three dicts are cleared and the directory is scanned.                   *)
(***************************************************************************)
ClearAndDiscover(r) ==
  LET scan == ScanModules(1, fault, EmptyDict, <<>>) IN
  /\ sources' = EmptyDict
  /\ source_classes' = scan.classes
  /\ source_settings' = EmptyDict
  /\ discovered' = [discovered EXCEPT ![r] = scan.found]
  /\ pc' = [pc EXCEPT ![r] = "sync"]

(***************************************************************************)
(* load_and_sync_sources is called (line 67).  Line 69 runs close_all up   *)
(* to its gather (line 229).  With no task gather is already done and the  *)
(* await does not suspend: the call runs on to line 102.                   *)
(***************************************************************************)
ReloadStart(r) ==
  /\ pc[r] \in {"idle"} \cup Ended
  /\ r = 2 => pc[1] # "idle"
  /\ reloads < MaxReloads
  /\ reloads' = reloads + 1
  /\ hist' = Interleaved([hist EXCEPT ![r] = StartHist(r)])
  /\ LET b == CloseTasks(sources) IN
     IF b = <<>>
     THEN /\ ClearAndDiscover(r)
          /\ UNCHANGED <<db, inst, batch, res>>
     ELSE /\ pc' = [pc EXCEPT ![r] = "closing"]
          /\ batch' = [batch EXCEPT ![r] = b]
          /\ res' = [res EXCEPT ![r] = Pending(b)]
          /\ UNCHANGED <<sources, source_classes, source_settings, db, inst,
                         discovered>>
  /\ UNCHANGED <<settings_list, env>>

(***************************************************************************)
(* One close() task of a gather batch runs (line 228): close() is invoked  *)
(* on the instance and returns or raises.                                  *)
(***************************************************************************)
CloseTaskRun(c, i, outcome) ==
  /\ pc[c] = "closing"
  /\ i \in 1..Len(res[c])
  /\ res[c][i] = "pending"
  /\ res' = [res EXCEPT ![c][i] = outcome]
  /\ inst' = [inst EXCEPT ![batch[c][i]].closeCalls = @ + 1]
  /\ UNCHANGED <<sources, source_classes, source_settings, db, pc, batch,
                 reloadLocals, hist, env, reloads>>

(***************************************************************************)
(* The gather of close_all has settled inside a reload: lines 230-235,     *)
(* then lines 70-99.                                                       *)
(***************************************************************************)
ReloadAfterClose(r) ==
  /\ pc[r] = "closing"
  /\ Settled(res[r])
  /\ batch' = [batch EXCEPT ![r] = <<>>]
  /\ res' = [res EXCEPT ![r] = <<>>]
  /\ IF CloseAllRaises(res[r], sources)
     THEN /\ pc' = [pc EXCEPT ![r] = "close_raised"]
          /\ hist' = Interleaved([hist EXCEPT ![r] = NoHist])
          /\ UNCHANGED <<sources, source_classes, source_settings, discovered>>
     ELSE /\ ClearAndDiscover(r)
          /\ hist' = Interleaved(hist)
  /\ UNCHANGED <<db, inst, settings_list, env, reloads>>

(***************************************************************************)
(* Line 102: the discovered names are synced to the store.                 *)
(***************************************************************************)
ReloadDbSync(r) ==
  /\ pc[r] = "sync"
  /\ \E row \in NewRows : db' = SyncToDb(db, discovered[r], row)
  /\ pc' = [pc EXCEPT ![r] = "read"]
  /\ hist' = Interleaved(hist)
  /\ UNCHANGED <<sources, source_classes, source_settings, inst, batch, res,
                 reloadLocals, env, reloads>>

\* line 105: the cache is rebuilt from the settings list
SettingsCache(rows) ==
  [n \in {rows[i].providerName : i \in 1..Len(rows)} |->
     (CHOOSE s \in {rows[i] : i \in 1..Len(rows)} : s.providerName = n).row]

(***************************************************************************)
(* Line 103: the settings list is read; the call then awaits the exit of   *)
(* the session block.                                                      *)
(***************************************************************************)
ReloadDbRead(r) ==
  /\ pc[r] = "read"
  /\ settings_list' = [settings_list EXCEPT ![r] = GetAllSettings(db)]
  /\ pc' = [pc EXCEPT ![r] = "exit"]
  /\ hist' = Interleaved(hist)
  /\ UNCHANGED <<sources, source_classes, source_settings, db, inst, batch, res,
                 discovered, env, reloads>>

(***************************************************************************)
(* Lines 105-109: the cache is replaced and the classes of                 *)
(* self._source_classes are instantiated.                                  *)
(***************************************************************************)
ReloadInstantiate(r) ==
  /\ pc[r] = "exit"
  /\ source_settings' = SettingsCache(settings_list[r])
  /\ LET made == Instantiate(Keys(source_classes), source_classes, fault,
                             sources, inst) IN
     /\ sources' = made.sources
     /\ inst' = made.inst
     /\ pc' = [pc EXCEPT ![r] = IF made.raised THEN "ctor_raised" ELSE "done"]
  /\ hist' = Interleaved([hist EXCEPT ![r] = NoHist])
  /\ discovered' = [discovered EXCEPT ![r] = <<>>]
  /\ settings_list' = [settings_list EXCEPT ![r] = <<>>]
  /\ UNCHANGED <<source_classes, db, batch, res, env, reloads>>

(***************************************************************************)
(* close_all called on its own, at shutdown (line 225).                    *)
(***************************************************************************)
CloseAllStart ==
  /\ pc[0] = "idle"
  /\ LET b == CloseTasks(sources) IN
     /\ pc' = [pc EXCEPT ![0] = IF b = <<>> THEN "done" ELSE "closing"]
     /\ batch' = [batch EXCEPT ![0] = b]
     /\ res' = [res EXCEPT ![0] = Pending(b)]
  /\ hist' = [hist EXCEPT ![0] = StartHist(0)]
  /\ UNCHANGED <<sources, source_classes, source_settings, db, inst,
                 reloadLocals, env, reloads>>

\* lines 229-235: the gather has settled, the failures are logged
CloseAllFinish ==
  /\ pc[0] = "closing"
  /\ Settled(res[0])
  /\ pc' = [pc EXCEPT ![0] = IF CloseAllRaises(res[0], sources)
                             THEN "close_raised" ELSE "done"]
  /\ UNCHANGED <<sources, source_classes, source_settings, db, inst, batch, res,
                 reloadLocals, hist, env, reloads>>

(***************************************************************************)
(* search_aliases_from_enabled_sources (lines 111-136).                    *)
(*                                                                         *)
(* An alias is a Python value: a string or None.  What a search_aliases    *)
(* task ends with: it raises, it returns a set, or it returns something    *)
(* that is no set.                                                         *)
(***************************************************************************)
Str(x) == [type |-> "str", value |-> x]
None == [type |-> "NoneType", value |-> ""]

\* Python's truth value of an alias (line 136: if alias)
Truthy(a) == a.type = "str" /\ a.value # ""

PendingTask == [kind |-> "pending", value |-> {}]
Raised == [kind |-> "exc", value |-> {}]
Returned(S) == [kind |-> "set", value |-> S]
ReturnedOther(S) == [kind |-> "list", value |-> S]

\* the outcomes the providers are given in this model
AliasOutcomes ==
  { Raised,
    Returned({}),
    Returned({Str("foo"), Str("Foo"), Str("")}),
    Returned({Str("bar"), Str("foo"), None}),
    ReturnedOther({Str("baz")}) }

\* mutant: every loaded provider is asked, enabled or not
ResolveAllLoaded(names, srcs) == Values(srcs)

\* lines 116-122: one search_aliases coroutine per enabled provider that
\* has an instance in self.sources; the others are skipped with a warning
RECURSIVE ResolveTasks(_, _)
ResolveTasks(names, srcs) ==
  IF names = <<>> THEN <<>>
  ELSE IF Head(names) \in DOMAIN srcs
       THEN <<srcs[Head(names)]>> \o ResolveTasks(Tail(names), srcs)
       ELSE ResolveTasks(Tail(names), srcs)

\* mutant: gather without return_exceptions, the first failure is raised
GatherRaisesFirst(r) == \E i \in 1..Len(r) : r[i].kind = "exc"

\* line 127: gather(return_exceptions=True) hands every exception back as a
\* result and raises none
GatherRaises(r) == FALSE

\* mutant: the merge stops at the first result that is no set
RECURSIVE MergeUntilFailure(_)
MergeUntilFailure(r) ==
  IF r = <<>> \/ Head(r).kind # "set" THEN {}
  ELSE Head(r).value \cup MergeUntilFailure(Tail(r))

\* lines 128-133: the sets among the results are merged, the rest is dropped
RECURSIVE MergeResults(_)
MergeResults(r) ==
  IF r = <<>> THEN {}
  ELSE IF Head(r).kind = "set"
       THEN Head(r).value \cup MergeResults(Tail(r))
       ELSE MergeResults(Tail(r))

\* mutant: nothing is filtered out
FilterNothing(S) == S

\* line 136
FilterAliases(S) == {alias \in S : Truthy(alias)}

\* line 111-114: the call awaits the enabled rows of the store
AliasStart ==
  /\ apc = "idle"
  /\ apc' = "db"
  /\ UNCHANGED <<registry, statusVars, enabled, tasks, results, all_aliases, hist>>

\* line 114: the rows are read; the call awaits the exit of the session block
AliasDbRead ==
  /\ apc = "db"
  /\ enabled' = [i \in 1..Len(GetEnabledAux(db)) |->
                   GetEnabledAux(db)[i].providerName]
  /\ apc' = "exit"
  /\ hist' = [hist EXCEPT ![0].dbAtRead = db]
  /\ UNCHANGED <<registry, statusVars, tasks, results, all_aliases>>

\* lines 116-127: the tasks are built from self.sources as it is now; with
\* no task the call returns the empty set, else it awaits the gather
AliasBuild ==
  /\ apc = "exit"
  /\ tasks' = ResolveTasks(enabled, sources)
  /\ results' = [i \in 1..Len(tasks') |-> PendingTask]
  /\ apc' = IF tasks' = <<>> THEN "done" ELSE "gather"
  /\ all_aliases' = {}
  /\ hist' = [hist EXCEPT ![0].sourcesAtBuild = sources]
  /\ UNCHANGED <<registry, statusVars, enabled>>

\* one search_aliases task runs to its end
AliasTaskRun(i, outcome) ==
  /\ apc = "gather"
  /\ i \in 1..Len(results)
  /\ results[i] = PendingTask
  /\ results' = [results EXCEPT ![i] = outcome]
  /\ UNCHANGED <<registry, statusVars, apc, enabled, tasks, all_aliases, hist>>

\* lines 127-136: the gather has settled
AliasFinish ==
  /\ apc = "gather"
  /\ \A i \in 1..Len(results) : results[i] # PendingTask
  /\ IF GatherRaises(results)
     THEN apc' = "raised" /\ all_aliases' = {}
     ELSE apc' = "done" /\ all_aliases' = FilterAliases(MergeResults(results))
  /\ UNCHANGED <<registry, statusVars, enabled, tasks, results, hist>>

(***************************************************************************)
(* get_sources_with_status (lines 138-166).                                *)
(***************************************************************************)
\* line 151: the status text of a provider that reported nothing usable
\* (the literal of the source, in English)
CheckFailed == "check failed"

\* what check_connectivity() can hand to the gather: a status text, an
\* exception, or a value that is no str
Status(text) == [kind |-> "str", value |-> text]
StatusRaised == [kind |-> "exc", value |-> ""]
StatusOther == [kind |-> "NoneType", value |-> ""]
StatusOutcomes ==
  {Status("connected"), Status("not configured"), StatusRaised, StatusOther}
PendingCheck == [kind |-> "pending", value |-> ""]

\* mutant: every provider is given the outcome of the first task
StatusMapOfFirst(loaded, statuses) ==
  [n \in {loaded[i] : i \in 1..Len(loaded)} |-> statuses[1]]

\* line 147: dict(zip(loaded_providers, connectivity_statuses))
StatusMap(loaded, statuses) ==
  [n \in {loaded[i] : i \in 1..Len(loaded)} |->
     statuses[CHOOSE i \in 1..Len(loaded) : loaded[i] = n]]

\* lines 151-155: the text of one provider
StatusText(status_map, provider_name) ==
  IF provider_name \in DOMAIN status_map /\ status_map[provider_name].kind = "str"
  THEN status_map[provider_name].value
  ELSE CheckFailed

\* mutant: a row for each provider that was checked, and no other
RowsOfChecked(settings, status_map) ==
  LET names == SelectSeq(Keys(settings), LAMBDA n : n \in DOMAIN status_map)
  IN  [i \in 1..Len(names) |->
         [providerName |-> names[i],
          isAuxSearchEnabled |-> settings[names[i]].isAuxSearchEnabled,
          displayOrder |-> settings[names[i]].displayOrder,
          status |-> StatusText(status_map, names[i]),
          useProxy |-> settings[names[i]].useProxy]]

\* lines 149-164: a row for each key of self.source_settings, in its order
StatusRows(settings, status_map) ==
  [i \in 1..Len(Keys(settings)) |->
     [providerName |-> Keys(settings)[i],
      isAuxSearchEnabled |-> settings[Keys(settings)[i]].isAuxSearchEnabled,
      displayOrder |-> settings[Keys(settings)[i]].displayOrder,
      status |-> StatusText(status_map, Keys(settings)[i]),
      useProxy |-> settings[Keys(settings)[i]].useProxy]]

\* line 166: sorted() is stable: x goes behind every row whose key is not
\* greater than its own
InsertByOrder(x, rows) ==
  LET k == Cardinality({i \in 1..Len(rows) :
                          rows[i].displayOrder <= x.displayOrder})
  IN  SubSeq(rows, 1, k) \o <<x>> \o SubSeq(rows, k + 1, Len(rows))

RECURSIVE SortedByOrder(_)
SortedByOrder(rows) ==
  IF rows = <<>> THEN <<>>
  ELSE InsertByOrder(rows[Len(rows)],
                     SortedByOrder(SubSeq(rows, 1, Len(rows) - 1)))

\* lines 147-166: what the call returns once the gather has settled
StatusList(settings, loaded, statuses) ==
  SortedByOrder(StatusRows(settings, StatusMap(loaded, statuses)))

\* lines 140-146: a check_connectivity task for each loaded provider; the
\* gather of no task is done at once and the call runs to its return
StatusStart ==
  /\ spc = "idle"
  /\ loaded_providers' = Keys(sources)
  /\ connectivity_statuses' = [i \in 1..Len(Keys(sources)) |-> PendingCheck]
  /\ IF Keys(sources) = <<>>
     THEN /\ spc' = "done"
          /\ full_status_list' = StatusList(source_settings, <<>>, <<>>)
          /\ hist' = [hist EXCEPT ![0].settingsAtList = source_settings]
     ELSE /\ spc' = "gather"
          /\ UNCHANGED <<full_status_list, hist>>
  /\ UNCHANGED <<registry, aliasVars>>

\* one check_connectivity task runs to its end
StatusTaskRun(i, outcome) ==
  /\ spc = "gather"
  /\ i \in 1..Len(connectivity_statuses)
  /\ connectivity_statuses[i] = PendingCheck
  /\ connectivity_statuses' = [connectivity_statuses EXCEPT ![i] = outcome]
  /\ UNCHANGED <<registry, aliasVars, spc, loaded_providers, full_status_list,
                 hist>>

\* lines 146-166: the gather has settled
StatusFinish ==
  /\ spc = "gather"
  /\ \A i \in 1..Len(connectivity_statuses) :
       connectivity_statuses[i] # PendingCheck
  /\ IF GatherRaises(connectivity_statuses)
     THEN /\ spc' = "raised"
          /\ UNCHANGED <<full_status_list, hist>>
     ELSE /\ spc' = "done"
          /\ full_status_list' = StatusList(source_settings, loaded_providers,
                                            connectivity_statuses)
          /\ hist' = [hist EXCEPT ![0].settingsAtList = source_settings]
  /\ UNCHANGED <<registry, aliasVars, loaded_providers, connectivity_statuses>>

\* the steps of the reloads that the callers in R make
Reload(R) ==
  \/ \E r \in R : ReloadStart(r)
  \/ \E r \in R : ReloadAfterClose(r)
  \/ \E r \in R : ReloadDbSync(r)
  \/ \E r \in R : ReloadDbRead(r)
  \/ \E r \in R : ReloadInstantiate(r)
  \/ \E r \in R, i \in 1..Len(NameOrder), o \in {"ok", "exc"} :
       CloseTaskRun(r, i, o)

Next ==
  \/ Reload(Reloaders)
  \/ \E i \in 1..Len(NameOrder), o \in {"ok", "exc"} : CloseTaskRun(0, i, o)
  \/ CloseAllStart
  \/ CloseAllFinish

Spec == Init /\ [][Next]_vars

(***************************************************************************)
(* The alias search, with the reloads of one caller, one after the other,  *)
(* running in between its steps.                                           *)
(***************************************************************************)
InitAliases ==
  /\ InitManager
  /\ fault \in Faults
  /\ db \in StoresOf([isAuxSearchEnabled : BOOLEAN, displayOrder : {0},
                      useProxy : {FALSE}])

NextAliases ==
  \/ Reload({1})
  \/ AliasStart
  \/ AliasDbRead
  \/ AliasBuild
  \/ \E i \in 1..Len(NameOrder), o \in AliasOutcomes : AliasTaskRun(i, o)
  \/ AliasFinish

SpecAliases == InitAliases /\ [][NextAliases]_vars

(***************************************************************************)
(* The status listing, with the reloads of one caller, one after the       *)
(* other, running in between its steps.                                    *)
(***************************************************************************)
InitStatus ==
  /\ InitManager
  /\ fault \in Faults
  /\ db \in StoresOf([isAuxSearchEnabled : {TRUE}, displayOrder : 0..MaxOrder,
                      useProxy : {FALSE}])

NextStatus ==
  \/ Reload({1})
  \/ StatusStart
  \/ \E i \in 1..Len(NameOrder), o \in StatusOutcomes : StatusTaskRun(i, o)
  \/ StatusFinish

SpecStatus == InitStatus /\ [][NextStatus]_vars

(***************************************************************************)
(* The three fan-out operations: the alias search, then the status         *)
(* listing, then close_all at shutdown, each called when the one before    *)
(* has ended, with the reloads of one caller running in between their      *)
(* steps.                                                                  *)
(***************************************************************************)
InitFanout ==
  /\ InitManager
  /\ fault \in {f \in Faults : Faulty(f) = {}}
  /\ db \in {store \in StoresOf({[isAuxSearchEnabled |-> TRUE,
                                   displayOrder |-> 0, useProxy |-> FALSE]}) :
               "douban" \in DOMAIN store}

NextFanout ==
  \/ Reload({1})
  \/ AliasStart
  \/ AliasDbRead
  \/ AliasBuild
  \/ \E i \in 1..Len(NameOrder), o \in {Raised, Returned({Str("foo")})} :
       AliasTaskRun(i, o)
  \/ AliasFinish
  \/ apc \in {"done", "raised"} /\ StatusStart
  \/ \E i \in 1..Len(NameOrder), o \in {StatusRaised, Status("connected")} :
       StatusTaskRun(i, o)
  \/ StatusFinish
  \/ spc \in {"done", "raised"} /\ CloseAllStart
  \/ \E i \in 1..Len(NameOrder), o \in {"ok", "exc"} : CloseTaskRun(0, i, o)
  \/ CloseAllFinish

SpecFanout == InitFanout /\ [][NextFanout]_vars

(***************************************************************************)
(* What a reader finds.  search, get_details and execute_action (lines     *)
(* 168-184) look the provider up in self.sources: the call is forwarded to *)
(* the instance found, or HTTPException 404 is raised.                     *)
(***************************************************************************)
\* mutant: a provider that is not loaded is served by the first one loaded
LookupOrFirst(srcs, provider) ==
  IF provider \in DOMAIN srcs
  THEN [outcome |-> "forwarded", target |-> srcs[provider]]
  ELSE IF srcs # EmptyDict
       THEN [outcome |-> "forwarded", target |-> Values(srcs)[1]]
       ELSE [outcome |-> "NotFound", target |-> 0]

Lookup(srcs, provider) ==
  IF provider \in DOMAIN srcs
  THEN [outcome |-> "forwarded", target |-> srcs[provider]]
  ELSE [outcome |-> "NotFound", target |-> 0]

(***************************************************************************)
(* The dispatch operations (lines 168-223).  Each runs from its call to    *)
(* the call of the provider's method with no suspension in between.        *)
(***************************************************************************)
DispatchOps == {"search", "get_details", "execute_action"}

\* the provider names a caller passes: one that two modules declare, the
\* one of tvdb.py, and one that no module declares
Providers == {"tmdb", "tvdb", "nonexistent"}

\* the frame of a dispatch operation: it assigns nothing of the manager
dispatchFrame == <<sources, source_classes, source_settings, db, inst, pc,
                   batch, res, discovered, settings_list, fault, reloads,
                   aliasVars, statusVars, hist>>

\* tvdb.py line 98: execute_action(self, action_name, payload, user) has no
\* parameter named request; the classes of the other modules follow the
\* plugin contract and have it
TakesRequest(module) == module # Tvdb

\* tvdb.py lines 99-100: the body of execute_action raises
\* NotImplementedError for every action
HasCustomActions(module) == module # Tvdb

\* how the call of the method ends.  Line 183 passes request=request: a
\* method without that parameter raises TypeError when it is called, and
\* its body never runs; else the body runs, and raises NotImplementedError
\* if the provider has no custom action
MethodOutcome(op, module) ==
  IF op # "execute_action" THEN "forwarded"
  ELSE IF ~TakesRequest(module) THEN "TypeError"
  ELSE IF ~HasCustomActions(module) THEN "NotImplementedError"
  ELSE "forwarded"

\* the record of a call: the name it looked up and whether that name was a
\* key of self.sources; how it ended; the instance it called a method of,
\* if any: its provider name, its module, whether it was the instance
\* self.sources held under the name looked up, and whether close() had
\* been invoked on it
CallRecord(op, provider, outcome, target) ==
  [op |-> op, provider |-> provider, loaded |-> provider \in DOMAIN sources,
   outcome |-> outcome,
   reached |-> IF target = 0 THEN "" ELSE inst[target].name,
   module |-> IF target = 0 THEN 0 ELSE inst[target].module,
   mapped |-> /\ target # 0
              /\ provider \in DOMAIN sources
              /\ sources[provider] = target,
   closed |-> target # 0 /\ inst[target].closeCalls > 0]

\* lines 168-184: search, get_details, execute_action
Dispatch(op, provider) ==
  /\ last_call' =
       LET found == Lookup(sources, provider) IN
       IF found.outcome = "NotFound"
       THEN CallRecord(op, provider, "NotFound", 0)
       ELSE CallRecord(op, provider,
                       MethodOutcome(op, inst[found.target].module),
                       found.target)
  /\ UNCHANGED dispatchFrame

\* line 194: the static table of configuration keys
ConfigKeysMap ==
  [tmdb |-> <<"tmdbApiKey", "tmdbApiBaseUrl", "tmdbImageBaseUrl">>,
   bangumi |-> <<"bangumiClientId", "bangumiClientSecret">>,
   douban |-> <<"doubanCookie">>,
   tvdb |-> <<"tvdbApiKey">>,
   imdb |-> <<>>]

\* lines 190-213: 404 for a provider that is not loaded, then the empty
\* configuration for one outside the table, else its configuration
ProviderConfigOutcome(srcs, providerName) ==
  IF providerName \notin DOMAIN srcs THEN "NotFound"
  ELSE IF providerName \notin DOMAIN ConfigKeysMap THEN "empty"
  ELSE "config"

\* lines 186-213: getProviderConfig; no method of an instance is called
GetProviderConfig(providerName) ==
  /\ last_call' = CallRecord("getProviderConfig", providerName,
                             ProviderConfigOutcome(sources, providerName), 0)
  /\ UNCHANGED dispatchFrame

\* line 218: hasattr(tmdb_source, "update_tmdb_mappings"); of the two
\* classes that declare "tmdb", the one of module tmdb_v4 has the method
HasUpdateTmdbMappings(module) == Modules[module].name = "tmdb_v4"

\* lines 217-223: forwarded if "tmdb" is loaded and has the method, else a
\* warning is logged and the call returns
UpdateTmdbOutcome(srcs, insts) ==
  IF "tmdb" \in DOMAIN srcs /\ HasUpdateTmdbMappings(insts[srcs["tmdb"]].module)
  THEN "forwarded"
  ELSE "noop"

\* lines 215-223: update_tmdb_mappings
UpdateTmdbMappings ==
  /\ last_call' =
       IF UpdateTmdbOutcome(sources, inst) = "forwarded"
       THEN CallRecord("update_tmdb_mappings", "tmdb", "forwarded",
                       sources["tmdb"])
       ELSE CallRecord("update_tmdb_mappings", "tmdb", "noop", 0)
  /\ UNCHANGED dispatchFrame

(***************************************************************************)
(* The dispatch operations, called at any time while one caller reloads,   *)
(* one reload after the other, and close_all is called at shutdown.        *)
(***************************************************************************)
InitDispatch ==
  /\ InitManager
  /\ fault \in FaultsWithTvdb
  /\ db = EmptyDict

\* no close() raises here: what close() does is of no concern to a dispatch
NextDispatch ==
  \/ ReloadStart(1)
  \/ ReloadAfterClose(1)
  \/ ReloadDbSync(1)
  \/ ReloadDbRead(1)
  \/ ReloadInstantiate(1)
  \/ \E c \in {0, 1}, i \in 1..Len(NameOrder) : CloseTaskRun(c, i, "ok")
  \/ CloseAllStart
  \/ CloseAllFinish
  \/ \E op \in DispatchOps, provider \in Providers : Dispatch(op, provider)
  \/ \E provider \in Providers : GetProviderConfig(provider)
  \/ UpdateTmdbMappings

SpecDispatch == InitDispatch /\ [][NextDispatch]_vars

\* the two structures every reader reads, as they are now
ReaderView == [loaded |-> DOMAIN sources, settings |-> source_settings]

\* the same when reload r was called
PreView(r) == [loaded |-> DOMAIN hist[r].preSources,
               settings |-> hist[r].preSettings]

\* the same when a reload that runs now to its end, with no constructor
\* raising, has returned
PostViews ==
  LET scan == ScanModules(1, fault, EmptyDict, <<>>) IN
  {[loaded |-> DOMAIN scan.classes,
    settings |-> SettingsCache(GetAllSettings(SyncToDb(db, scan.found, row)))] :
     row \in NewRows}

\* nothing is wrong with any module
NoFault == Faulty(fault) = {}

\* the providers of the modules nothing is wrong with
HealthyNames ==
  {Modules[i].provider_name : i \in {j \in Importable : fault[j] = "none"}}

\* at most one call of load_and_sync_sources at a time was made so far
Sequential == pc[2] = "idle"

(***************************************************************************)
(* C1.  While one reload is suspended, a reader finds the instance map and *)
(* the settings cache both as they were when the reload was called or both *)
(* as they are when it has returned, never anything in between.            *)
(***************************************************************************)
C1_ReaderSeesPreOrPost ==
  (Sequential /\ NoFault) =>
    \A r \in Reloaders :
      pc[r] \in Active => ReaderView \in {PreView(r)} \cup PostViews

(***************************************************************************)
(* C2.  Once close_all() has returned, with no reload around, the instance *)
(* map is empty and every search, get_details or execute_action raises     *)
(* NotFound.                                                               *)
(***************************************************************************)
C2_CloseAllLeavesNoProvider ==
  (pc[0] = "done" /\ hist[0].alone /\ NoFault) =>
    /\ sources = EmptyDict
    /\ \A p \in Names : Lookup(sources, p).outcome = "NotFound"

(***************************************************************************)
(* C3.  A close_all() that runs with no other call in between returns      *)
(* normally, whichever close() raised, and has invoked close() exactly     *)
(* once on every loaded instance.                                          *)
(***************************************************************************)
C3_CloseAllClosesEachOnce ==
  (pc[0] \in Ended /\ hist[0].alone) =>
    /\ pc[0] = "done"
    /\ batch[0] = Values(sources)
    /\ \A i \in 1..Len(batch[0]) :
         inst[batch[0][i]].closeCalls = hist[0].callsAtStart[i] + 1

C3_Witness ==
  /\ pc[0] = "done" /\ hist[0].alone
  /\ Len(batch[0]) = 2
  /\ res[0] = <<"exc", "ok">>

(***************************************************************************)
(* C4.  With one plugin failing, at import or in its constructor, a reload *)
(* returns normally and has loaded exactly the providers of the other      *)
(* plugins.                                                                *)
(***************************************************************************)
C4_ReloadContainsPluginFailure ==
  (/\ Sequential
   /\ pc[1] \in Ended
   /\ Cardinality(Faulty(fault)) = 1) =>
    /\ pc[1] = "done"
    /\ DOMAIN sources = HealthyNames

(***************************************************************************)
(* C5.  After a reload that returned, every key of the settings cache is a *)
(* provider name that reload discovered.                                   *)
(***************************************************************************)
C5_CacheWithinDiscovered ==
  (Sequential /\ NoFault /\ pc[1] = "done") =>
    DOMAIN source_settings \subseteq DOMAIN source_classes

(***************************************************************************)
(* The alias search: what it read and what its providers did.              *)
(***************************************************************************)
\* the providers the store had enabled when line 114 read it
EnabledAtRead ==
  {n \in DOMAIN hist[0].dbAtRead : hist[0].dbAtRead[n].isAuxSearchEnabled}

\* the providers that had an instance when lines 116-122 ran
LoadedAtBuild == DOMAIN hist[0].sourcesAtBuild

\* the providers search_aliases was called on
Called == {inst[tasks[i]].name : i \in 1..Len(tasks)}

\* the tasks that returned a set, and the tasks that raised
Successful == {i \in 1..Len(results) : results[i].kind = "set"}
Failed == {i \in 1..Len(results) : results[i].kind = "exc"}

\* every alias a successful provider returned
GoodAliases == UNION {results[i].value : i \in Successful}

\* the aliases that are falsy in Python: the empty string and None
Falsy == {Str(""), None}

(***************************************************************************)
(* C6, as stated.  When a provider raises and another returns a set, the   *)
(* result is the union of the sets the successful providers returned.      *)
(***************************************************************************)
C6_UnionOfSuccessful ==
  (apc = "done" /\ Failed # {} /\ Successful # {}) =>
    all_aliases = GoodAliases

(***************************************************************************)
(* C6, amended.  When a provider raises and another returns a set, the     *)
(* call returns normally and the result is the union of the sets the       *)
(* successful providers returned, less its falsy values.                   *)
(***************************************************************************)
C6_UnionOfSuccessfulLessFalsy ==
  (apc \in {"done", "raised"} /\ Failed # {} /\ Successful # {}) =>
    /\ apc = "done"
    /\ all_aliases = GoodAliases \ Falsy

C6_Witness ==
  /\ apc = "done"
  /\ results = <<Raised, Returned({Str("foo"), Str("Foo"), Str("")})>>
  /\ all_aliases = {Str("foo"), Str("Foo")}

(***************************************************************************)
(* C7.  The returned set holds no falsy alias, whatever the providers      *)
(* returned, and holds every other alias of a successful provider as it    *)
(* was returned.                                                           *)
(***************************************************************************)
C7_NoFalsyAlias ==
  apc = "done" =>
    /\ all_aliases \cap Falsy = {}
    /\ \A i \in Successful : \A a \in results[i].value :
         a \notin Falsy => a \in all_aliases

C7_Witness ==
  /\ apc = "done"
  /\ \E i \in Successful : None \in results[i].value
  /\ \E i \in Successful : Str("") \in results[i].value
  /\ {Str("foo"), Str("Foo"), Str("bar")} \subseteq all_aliases

(***************************************************************************)
(* C8.  search_aliases is called only on providers the store has enabled;  *)
(* with no provider enabled none is called and the result is empty.        *)
(***************************************************************************)
C8_OnlyEnabledCalled ==
  apc \in {"gather", "done", "raised"} =>
    /\ Called \subseteq EnabledAtRead
    /\ EnabledAtRead = {} =>
         apc = "done" /\ tasks = <<>> /\ all_aliases = {}

C8_Witness ==
  /\ apc = "done"
  /\ LoadedAtBuild \ EnabledAtRead # {}
  /\ Called # {}
  /\ all_aliases # {}

(***************************************************************************)
(* C9.  The call never raises: an enabled provider with no instance is     *)
(* skipped and the other enabled providers are still called, and when      *)
(* every provider called raises the result is the empty set.               *)
(***************************************************************************)
C9_NeverFailsOnProviders ==
  apc \in {"gather", "done", "raised"} =>
    /\ apc # "raised"
    /\ Called = EnabledAtRead \cap LoadedAtBuild
    /\ (apc = "done" /\ Successful = {}) => all_aliases = {}

C9_Witness ==
  /\ apc = "done"
  /\ EnabledAtRead \ LoadedAtBuild # {}
  /\ Len(tasks) = 2
  /\ \A i \in 1..Len(results) : results[i] = Raised
  /\ all_aliases = {}

(***************************************************************************)
(* The status listing: what it returned.                                   *)
(***************************************************************************)
\* the providers the call found loaded (line 142)
CheckedProviders == {loaded_providers[i] : i \in 1..Len(loaded_providers)}

\* the providers the returned rows are about
ListedProviders ==
  {full_status_list[i].providerName : i \in 1..Len(full_status_list)}

(***************************************************************************)
(* C10.  get_sources_with_status returns one row, and one only, for every  *)
(* provider of the settings cache, in non-decreasing displayOrder; a       *)
(* provider of the cache that the call found no instance of has its row,   *)
(* and the row carries the default failure text.                           *)
(***************************************************************************)
C10_StatusListCoversCache ==
  spc = "done" =>
    /\ ListedProviders = DOMAIN hist[0].settingsAtList
    /\ Len(full_status_list) = Cardinality(DOMAIN hist[0].settingsAtList)
    /\ \A i, j \in 1..Len(full_status_list) :
         i < j => full_status_list[i].displayOrder
                    <= full_status_list[j].displayOrder
    /\ \A i \in 1..Len(full_status_list) :
         full_status_list[i].providerName \notin CheckedProviders =>
           full_status_list[i].status = CheckFailed

C10_Witness ==
  /\ spc = "done"
  /\ Len(full_status_list) = 3
  /\ full_status_list[1].providerName = "tmdb"
  /\ full_status_list[1].status = "connected"
  /\ full_status_list[3].providerName = "bangumi"
  /\ "douban" \notin CheckedProviders
  /\ full_status_list[2] = [providerName |-> "douban",
                            isAuxSearchEnabled |-> TRUE, displayOrder |-> 0,
                            status |-> CheckFailed, useProxy |-> FALSE]

\* the outcome of the check_connectivity task of a provider the call checked
OutcomeOf(provider_name) ==
  connectivity_statuses[CHOOSE i \in 1..Len(loaded_providers) :
                          loaded_providers[i] = provider_name]

(***************************************************************************)
(* C11.  When check_connectivity of a loaded provider raises,              *)
(* get_sources_with_status returns all the same: the row of that provider  *)
(* carries the default failure text, and the row of every other provider   *)
(* carries the text its own check_connectivity returned.                   *)
(***************************************************************************)
C11_RaisedCheckIsContained ==
  (spc \in {"done", "raised"}
     /\ \E n \in CheckedProviders : OutcomeOf(n) = StatusRaised) =>
    /\ spc = "done"
    /\ \A i \in 1..Len(full_status_list) :
         LET row == full_status_list[i] IN
         row.providerName \in CheckedProviders =>
           /\ OutcomeOf(row.providerName) = StatusRaised =>
                row.status = CheckFailed
           /\ OutcomeOf(row.providerName).kind = "str" =>
                row.status = OutcomeOf(row.providerName).value

C11_Witness ==
  /\ spc = "done"
  /\ loaded_providers = <<"bangumi", "tmdb">>
  /\ connectivity_statuses = <<StatusRaised, Status("not configured")>>
  /\ Len(full_status_list) = 2
  /\ \E i \in 1..2 : /\ full_status_list[i].providerName = "bangumi"
                     /\ full_status_list[i].status = CheckFailed
  /\ \E i \in 1..2 : /\ full_status_list[i].providerName = "tmdb"
                     /\ full_status_list[i].status = "not configured"

(***************************************************************************)
(* C12.  search, get_details and execute_action on a name that is no key   *)
(* of self.sources raise NotFound and call no method of any instance; on a *)
(* name that is a key they call the method of the instance self.sources    *)
(* holds under that name, and of no other.                                 *)
(***************************************************************************)
C12_DispatchFindsOrNotFound ==
  last_call.op \in DispatchOps =>
    IF last_call.loaded
    THEN /\ last_call.outcome # "NotFound"
         /\ last_call.reached = last_call.provider
         /\ last_call.mapped
    ELSE /\ last_call.outcome = "NotFound"
         /\ last_call.reached = ""

C12_Witness ==
  /\ last_call.op = "get_details"
  /\ last_call.provider = "tmdb"
  /\ last_call.loaded
  /\ last_call.reached = "tmdb"
  /\ last_call.outcome = "forwarded"
  /\ "tvdb" \in DOMAIN sources

\* the instances constructed so far from the class of the module named so
InstancesOf(module_name) ==
  {i \in DOMAIN inst : Modules[inst[i].module].name = module_name}

(***************************************************************************)
(* C13.  The modules tmdb and tmdb_v4 both declare the provider "tmdb",    *)
(* tmdb first.  A reload returns without raising and self.sources holds    *)
(* one instance under "tmdb", of the class of tmdb_v4; the class of tmdb   *)
(* is never instantiated.                                                  *)
(***************************************************************************)
C13_LastDuplicateWins ==
  NoFault =>
    /\ InstancesOf("tmdb") = {}
    /\ (Sequential /\ pc[1] \in Ended) =>
         /\ pc[1] = "done"
         /\ "tmdb" \in DOMAIN sources
         /\ sources["tmdb"] \in InstancesOf("tmdb_v4")
         /\ Cardinality({n \in DOMAIN sources :
                           inst[sources[n]].name = "tmdb"}) = 1

C13_Witness ==
  /\ NoFault /\ Sequential
  /\ pc[1] = "done"
  /\ reloads = 2
  /\ Cardinality(InstancesOf("tmdb_v4")) = 2
  /\ sources["tmdb"] \in InstancesOf("tmdb_v4")
  /\ inst[sources["tmdb"]].closeCalls = 0

(***************************************************************************)
(* C14.  getProviderConfig of a provider name that is no key of the static *)
(* table of configuration keys returns the empty configuration and raises  *)
(* nothing, whether the provider is loaded or not.                         *)
(***************************************************************************)
C14_ConfigOutsideTableIsEmpty ==
  (last_call.op = "getProviderConfig"
     /\ last_call.provider \notin DOMAIN ConfigKeysMap
     /\ pc[1] = "done") =>
    last_call.outcome = "empty"

(***************************************************************************)
(* C15.  A reload that is called when an earlier one has ended, with the   *)
(* plugin directory and the store as the earlier one left them, ends with  *)
(* the provider names loaded and the settings cache that it found when it  *)
(* was called, and close() has been invoked on every instance it found.    *)
(***************************************************************************)
C15_ReloadIsIdempotent ==
  [][(Sequential /\ reloads >= 2 /\ pc[1] = "exit" /\ pc'[1] \in Ended) =>
       /\ DOMAIN sources' = DOMAIN hist[1].preSources
       /\ source_settings' = hist[1].preSettings
       /\ \A n \in DOMAIN hist[1].preSources :
            inst'[hist[1].preSources[n]].closeCalls >= 1]_vars

C15_Witness ==
  /\ Sequential /\ NoFault
  /\ reloads = 2
  /\ pc[1] = "done"
  /\ Len(inst) = 4
  /\ inst[1].closeCalls = 1 /\ inst[2].closeCalls = 1
  /\ sources = [bangumi |-> 3, tmdb |-> 4]
  /\ DOMAIN source_settings = {"bangumi", "tmdb", "douban"}

\* the instances that are live: constructed, close() not yet invoked
Live == {i \in DOMAIN inst : inst[i].closeCalls = 0}

\* the instances self.sources holds
Held == {sources[n] : n \in DOMAIN sources}

(***************************************************************************)
(* C16.  At any time, overlapping reloads included, a provider name has at *)
(* most one live instance, and a live instance is held by self.sources: no *)
(* instance leaves the map before close() has been invoked on it.          *)
(***************************************************************************)
C16_OneLiveInstancePerName ==
  NoFault =>
    /\ Live \subseteq Held
    /\ \A i, j \in Live : inst[i].name = inst[j].name => i = j

\* the tasks of a fan-out are one per provider: as many as the providers,
\* each on an instance of its own
OnePerProvider(instances, providers) ==
  /\ Len(instances) = Cardinality(providers)
  /\ {inst[instances[i]].name : i \in 1..Len(instances)} = providers

(***************************************************************************)
(* C17.  In the alias search, the status listing and close_all: one task   *)
(* is launched per resolved provider; a task that has not yet run can      *)
(* still run to its own outcome whatever its siblings did, a failure       *)
(* included; and the operation goes on to its result only when every task  *)
(* it launched has returned or raised.                                     *)
(***************************************************************************)
C17_FanOutWaitsForAll ==
  /\ apc \in {"gather", "done", "raised"} =>
       /\ OnePerProvider(tasks, EnabledAtRead \cap LoadedAtBuild)
       /\ Len(results) = Len(tasks)
  /\ apc = "gather" =>
       \A i \in 1..Len(results) :
         results[i] = PendingTask =>
           ENABLED AliasTaskRun(i, Returned({Str("foo")}))
  /\ apc \in {"done", "raised"} =>
       \A i \in 1..Len(results) : results[i] # PendingTask
  /\ spc \in {"gather", "done", "raised"} =>
       Len(connectivity_statuses) = Len(loaded_providers)
  /\ spc = "gather" =>
       \A i \in 1..Len(connectivity_statuses) :
         connectivity_statuses[i] = PendingCheck =>
           ENABLED StatusTaskRun(i, Status("connected"))
  /\ spc \in {"done", "raised"} =>
       \A i \in 1..Len(connectivity_statuses) :
         connectivity_statuses[i] # PendingCheck
  /\ pc[0] \in {"closing"} \cup Ended =>
       /\ Len(batch[0]) = Len(hist[0].callsAtStart)
       /\ Len(res[0]) = Len(batch[0])
  /\ pc[0] = "closing" =>
       \A i \in 1..Len(res[0]) :
         res[0][i] = "pending" => ENABLED CloseTaskRun(0, i, "ok")
  /\ pc[0] \in Ended =>
       \A i \in 1..Len(res[0]) : res[0][i] # "pending"

C17_Witness ==
  /\ apc = "done" /\ spc = "done" /\ pc[0] = "done"
  /\ results = <<Raised, Returned({Str("foo")})>>
  /\ connectivity_statuses = <<StatusRaised, Status("connected")>>
  /\ res[0] = <<"exc", "ok">>
  /\ all_aliases = {Str("foo")}

(***************************************************************************)
(* C18.  update_tmdb_mappings raises NotFound when "tmdb" is not loaded;   *)
(* when it is loaded and its instance has no update_tmdb_mappings method   *)
(* the call is a logged no-op; when it has the method the call is          *)
(* forwarded to that instance, once.                                       *)
(***************************************************************************)
C18_TmdbMappingsNotFoundOrForwarded ==
  last_call.op = "update_tmdb_mappings" =>
    IF ~last_call.loaded
    THEN last_call.outcome = "NotFound"
    ELSE IF last_call.outcome = "noop"
         THEN last_call.reached = ""
         ELSE /\ last_call.outcome = "forwarded"
              /\ last_call.reached = "tmdb"
              /\ last_call.mapped
              /\ HasUpdateTmdbMappings(last_call.module)

(***************************************************************************)
(* C19.  execute_action on the loaded tvdb provider, which implements no   *)
(* custom action, ends with the exception the provider raises for an       *)
(* unsupported action (NotImplementedError), not with NotFound and not     *)
(* with a failure of the call itself.                                      *)
(***************************************************************************)
C19_TvdbActionIsUnsupported ==
  (last_call.op = "execute_action" /\ last_call.provider = "tvdb"
     /\ last_call.loaded) =>
    /\ last_call.reached = "tvdb"
    /\ last_call.outcome = "NotImplementedError"

(***************************************************************************)
(* C20.  No call is forwarded to an instance on which close() has been     *)
(* invoked.  Stated for search, get_details, execute_action and            *)
(* update_tmdb_mappings, and for the runs in which close_all is called by  *)
(* reloads only, not yet at shutdown.                                      *)
(***************************************************************************)
C20_NoCallAfterClose ==
  (pc[0] = "idle" /\ last_call.reached # "") => ~last_call.closed

====
